---- MODULE Spec2Model ----
(***************************************************************************)
(* Model of the three dashboard pages (main.py, pages/01, pages/02):       *)
(* CSV load, column renaming, numeric coercion, top-5 selection, reshape,  *)
(* and the st.cache_data memoization of the loaders.                       *)
(*                                                                         *)
(* Text is modelled as sequences of one-character strings.  Korean         *)
(* syllables of the source are written with ASCII stand-ins:               *)
(*   h j g y = 행 정 구 역      c i g u = 총 인 구 수     s d u = 세 대 수   *)
(*   K = 계    s = 세    e a = 이 상    J G = 전 국    Y = 년    M = 월      *)
(*   A B C R = syllables of ordinary region names; x = text that is no     *)
(*   number; "\t" = a tab                                                  *)
(* A number is kept in halves (h = 2 * value) so that n.5 is exact.        *)
(***************************************************************************)
EXTENDS Integers, Sequences, FiniteSets, TLC

VARIABLES
    page,        \* the page script that runs: "main", "p01" or "p02"
    disk,        \* the file at the page's fixed path
    cache,       \* the st.cache_data entry of the page's cached loader
    filledFrom,  \* history: the file the cache entry was computed from
    seen,        \* history: the file on disk when the last render ran
    prevFail,    \* history: the render before the last one reported a load failure
    out          \* what the last render handed to the rendering layer

vars == <<page, disk, cache, filledFrom, seen, prevFail, out>>

Pages == {"main", "p01", "p02"}

-----------------------------------------------------------------------------
(* Text helpers: Python str operations used by the loaders.                *)

Digits == {"0", "1", "2", "3", "4", "5", "6", "7", "8", "9"}

DigitVal(ch) ==
    CASE ch = "0" -> 0 [] ch = "1" -> 1 [] ch = "2" -> 2 [] ch = "3" -> 3
      [] ch = "4" -> 4 [] ch = "5" -> 5 [] ch = "6" -> 6 [] ch = "7" -> 7
      [] ch = "8" -> 8 [] OTHER -> 9

\* `sub in s`
Contains(s, sub) ==
    \E i \in 1..(Len(s) - Len(sub) + 1) : SubSeq(s, i, i + Len(sub) - 1) = sub

\* s.split(sep)[0] for a one-character sep
SplitFirst(s, sep) ==
    IF \E i \in 1..Len(s) : s[i] = sep
    THEN LET k == CHOOSE i \in 1..Len(s) :
                      s[i] = sep /\ \A m \in 1..(i - 1) : s[m] # sep
         IN  SubSeq(s, 1, k - 1)
    ELSE s

\* s.split(sub)[-1]
SplitLast(s, sub) ==
    IF Contains(s, sub)
    THEN LET k == CHOOSE i \in 1..(Len(s) - Len(sub) + 1) :
                      /\ SubSeq(s, i, i + Len(sub) - 1) = sub
                      /\ \A m \in (i + 1)..(Len(s) - Len(sub) + 1) :
                             SubSeq(s, m, m + Len(sub) - 1) # sub
         IN  SubSeq(s, k + Len(sub), Len(s))
    ELSE s

\* s.replace(ch, '') for a one-character ch
RECURSIVE RemoveChar(_, _)
RemoveChar(s, ch) ==
    IF s = <<>> THEN <<>>
    ELSE IF Head(s) = ch THEN RemoveChar(Tail(s), ch)
    ELSE <<Head(s)>> \o RemoveChar(Tail(s), ch)

\* s.replace(sub, '') for a longer sub (left to right, non-overlapping)
RECURSIVE RemoveSub(_, _)
RemoveSub(s, sub) ==
    IF Len(s) < Len(sub) THEN s
    ELSE IF SubSeq(s, 1, Len(sub)) = sub
         THEN RemoveSub(SubSeq(s, Len(sub) + 1, Len(s)), sub)
         ELSE <<Head(s)>> \o RemoveSub(Tail(s), sub)

\* s.isdigit()
IsDigitStr(s) == s # <<>> /\ \A i \in 1..Len(s) : s[i] \in Digits

\* int(s) for a digit string
RECURSIVE DigitsToInt(_)
DigitsToInt(s) ==
    IF s = <<>> THEN 0
    ELSE 10 * DigitsToInt(SubSeq(s, 1, Len(s) - 1)) + DigitVal(s[Len(s)])

-----------------------------------------------------------------------------
(* Column names.  A name is a str, or an int after page 01's renaming.     *)

StrName(s) == [int |-> FALSE, s |-> s, n |-> 0]
IntName(n) == [int |-> TRUE, s |-> <<>>, n |-> n]

RegionCol == StrName(<<"h", "j", "g", "y">>)
TotalMark == <<"c", "i", "g", "u">>
TotalCol  == StrName(TotalMark)
SumCol    == StrName(<<"K">>)

HasCol(df, name) == \E j \in 1..Len(df.cols) : df.cols[j] = name
CountCol(df, name) == Cardinality({j \in 1..Len(df.cols) : df.cols[j] = name})
ColIdx(df, name) == CHOOSE j \in 1..Len(df.cols) :
                        df.cols[j] = name /\ \A m \in 1..(j - 1) : df.cols[m] # name

-----------------------------------------------------------------------------
(* Raw CSV fields and the values pandas holds for them.                    *)

NoText == <<>>
CNum(v)  == [k |-> "num",   v |-> v, s |-> NoText]   \* "12", "-3"
CGrp(v)  == [k |-> "grp",   v |-> v, s |-> NoText]   \* "1,234"
CDec(v)  == [k |-> "dec",   v |-> v, s |-> NoText]   \* "v.5"
CEmpty   == [k |-> "empty", v |-> 0, s |-> NoText]   \* ""
CText(s) == [k |-> "text",  v |-> 0, s |-> s]        \* anything else

VNum(h)  == [t |-> "num", h |-> h, c |-> CEmpty]     \* int64/float64 value, in halves
VNaN     == [t |-> "nan", h |-> 0, c |-> CEmpty]
VStr(c)  == [t |-> "str", h |-> 0, c |-> c]          \* the field's text, kept as read
VInt(n)  == [t |-> "int", h |-> 2 * n, c |-> CEmpty] \* after astype(int)

\* dtype inference of pd.read_csv(..., thousands=','): a column is numeric
\* when every field parses as a number; otherwise every field stays text.
\* A column of a frame without rows has dtype object.
IsObjectCol(rows, j) ==
    \/ rows = <<>>
    \/ \E i \in 1..Len(rows) : rows[i][j].k = "text"

ReadCell(c, object) ==
    IF c.k = "empty" THEN VNaN
    ELSE IF object THEN VStr(c)
    ELSE CASE c.k = "num" -> VNum(2 * c.v)
           [] c.k = "grp" -> VNum(2 * c.v)
           [] OTHER       -> VNum(2 * c.v + 1)

ReadCsv(f) ==
    [cols |-> [j \in 1..Len(f.header) |-> StrName(f.header[j])],
     rows |-> [i \in 1..Len(f.rows) |->
                 [j \in 1..Len(f.header) |->
                     ReadCell(f.rows[i][j], IsObjectCol(f.rows, j))]]]

\* pd.to_numeric(x, errors='coerce'): text is parsed without thousands handling
ToNumeric(x) ==
    CASE x.t = "num" -> x
      [] x.t = "int" -> VNum(x.h)
      [] x.t = "nan" -> VNaN
      [] OTHER ->
           CASE x.c.k = "num" -> VNum(2 * x.c.v)
             [] x.c.k = "dec" -> VNum(2 * x.c.v + 1)
             [] OTHER         -> VNaN

FillNa0(x) == IF x.t = "nan" THEN VNum(0) ELSE x

\* astype(int) truncates toward zero
AsTypeInt(x) ==
    IF x.h >= 0 THEN VInt(x.h \div 2) ELSE VInt(-((-x.h) \div 2))

\* Mutant of Coerce: the astype(int) is left out
CoerceNoCast(x) == FillNa0(ToNumeric(x))

\* pd.to_numeric(col, errors='coerce').fillna(0).astype(int), per value
Coerce(x) == AsTypeInt(FillNa0(ToNumeric(x)))

CoerceCols(df, names) ==
    [df EXCEPT !.rows =
        [i \in 1..Len(df.rows) |->
            [j \in 1..Len(df.cols) |->
                IF df.cols[j] \in names THEN Coerce(df.rows[i][j])
                ELSE df.rows[i][j]]]]

-----------------------------------------------------------------------------
(* Results of a load.                                                      *)

NoDF == [cols |-> <<>>, rows |-> <<>>]
Ok(df)     == [st |-> "ok",    df |-> df,   err |-> "", raw |-> NoDF]
Raise(e)   == [st |-> "raise", df |-> NoDF, err |-> e,  raw |-> NoDF]
RetNone(e) == [st |-> "none",  df |-> NoDF, err |-> e,  raw |-> NoDF]

-----------------------------------------------------------------------------
(* main.py: load_and_process_data                                          *)

Nationwide == <<"J", "G">>
SegTotal   == <<"_", "K", "_">>

\* Mutant of RenameMain: the marker test is '수' in col
RenameMainLoose(s) ==
    IF Contains(s, <<"u">>) THEN TotalMark
    ELSE IF Contains(s, SegTotal)
         THEN RemoveSub(RemoveChar(SplitLast(s, SegTotal), "s"), <<" ", "e", "a">>)
         ELSE s

\* main.py 29-37: the new name of one column
RenameMain(s) ==
    IF Contains(s, TotalMark) THEN TotalMark
    ELSE IF Contains(s, SegTotal)
         THEN RemoveSub(RemoveChar(SplitLast(s, SegTotal), "s"), <<" ", "e", "a">>)
         ELSE s

RenameColsMain(df) ==
    [df EXCEPT !.cols = [j \in 1..Len(df.cols) |-> StrName(RenameMain(df.cols[j].s))]]

\* main.py 24-25: drop the first row when its region holds '전국'
DropFirstNationwide(df) ==
    IF Contains(df.rows[1][ColIdx(df, RegionCol)].c.s, Nationwide)
    THEN [df EXCEPT !.rows = Tail(df.rows)]
    ELSE df

\* Mutant of StripRegionValue: the region is kept as read
StripRegionKept(x) == x

\* main.py 42: df['행정구역'].str.split(' ').str[0]
StripRegionValue(x) ==
    IF x.t = "str" THEN VStr([x.c EXCEPT !.s = SplitFirst(x.c.s, " ")]) ELSE x

StripRegion(df) ==
    [df EXCEPT !.rows =
        [i \in 1..Len(df.rows) |->
            [j \in 1..Len(df.cols) |->
                IF df.cols[j] = RegionCol THEN StripRegionValue(df.rows[i][j])
                ELSE df.rows[i][j]]]]

\* main.py 46: the digit-named columns
DigitCols(df) == {df.cols[j] : j \in {m \in 1..Len(df.cols) : IsDigitStr(df.cols[m].s)}}

\* main.py 46-51: numeric_cols and their conversion; df[col] of a name held
\* by two columns is a frame, which pd.to_numeric rejects
ConvertMain(df) ==
    IF \E c \in DigitCols(df) : CountCol(df, c) > 1 THEN Raise("TypeError")
    ELSE IF ~HasCol(df, TotalCol) THEN Raise("KeyError")
    ELSE IF CountCol(df, TotalCol) > 1 THEN Raise("TypeError")
    ELSE Ok(CoerceCols(df, DigitCols(df) \cup {TotalCol}))

\* main.py 12-53
LoadMain(f) ==
    IF ~f.exists THEN Raise("FileNotFoundError")
    ELSE IF ~f.decodable THEN Raise("UnicodeDecodeError")
    ELSE LET df == ReadCsv(f) IN
         IF df.rows = <<>> THEN Raise("IndexError")
         ELSE IF ~HasCol(df, RegionCol) THEN Raise("KeyError")
         ELSE IF df.rows[1][ColIdx(df, RegionCol)].t # "str" THEN Raise("TypeError")
         ELSE ConvertMain(StripRegion(RenameColsMain(DropFirstNationwide(df))))

-----------------------------------------------------------------------------
(* pages/01: load_and_process_data                                         *)

IsSpace(ch) == ch \in {" ", "\t"}

\* re.compile(r'(\d+)(~|\s*세)'): what may follow group 1 ending before k
AgeFollows(s, k) ==
    /\ k <= Len(s)
    /\ \/ s[k] = "~"
       \/ \E m \in k..Len(s) : s[m] = "s" /\ \A x \in k..(m - 1) : IsSpace(s[x])

AgeMatches(s) ==
    {p \in (1..Len(s)) \X (1..Len(s)) :
        /\ p[1] <= p[2]
        /\ \A x \in p[1]..p[2] : s[x] \in Digits
        /\ AgeFollows(s, p[2] + 1)}

\* age_pattern.search(col): leftmost start, then the longest group 1
AgeSearch(s) ==
    LET ms == AgeMatches(s)
        i  == CHOOSE a \in {p[1] : p \in ms} : \A b \in {p[1] : p \in ms} : a <= b
        j  == CHOOSE a \in {p[2] : p \in {q \in ms : q[1] = i}} :
                  \A b \in {p[2] : p \in {q \in ms : q[1] = i}} : a >= b
    IN  DigitsToInt(SubSeq(s, i, j))

\* pages/01 46-51
RenameAge01(c) ==
    IF /\ ~c.int
       /\ Contains(c.s, <<"K", "_">>) /\ Contains(c.s, <<"s">>)
       /\ ~Contains(c.s, TotalMark) /\ ~Contains(c.s, <<"s", "d", "u">>)
       /\ AgeMatches(c.s) # {}
    THEN IntName(AgeSearch(c.s))
    ELSE c

\* pages/01 36-37: the first column holding '총인구수' becomes '총인구수'
RenameTotal01(df) ==
    LET k == CHOOSE j \in 1..Len(df.cols) :
                 /\ Contains(df.cols[j].s, TotalMark)
                 /\ \A m \in 1..(j - 1) : ~Contains(df.cols[m].s, TotalMark)
    IN  [df EXCEPT !.cols =
            [j \in 1..Len(df.cols) |->
                IF df.cols[j] = df.cols[k] THEN TotalCol ELSE df.cols[j]]]

RenameAges01(df) ==
    [df EXCEPT !.cols = [j \in 1..Len(df.cols) |-> RenameAge01(df.cols[j])]]

\* pages/01 61-63: df_processed[['행정구역', '총인구수'] + age_cols]
SelectRequired01(df) ==
    LET keep == SelectSeq([j \in 1..Len(df.cols) |-> j],
                          LAMBDA j : df.cols[j] = RegionCol)
             \o SelectSeq([j \in 1..Len(df.cols) |-> j],
                          LAMBDA j : df.cols[j] = TotalCol)
             \o SelectSeq([j \in 1..Len(df.cols) |-> j],
                          LAMBDA j : df.cols[j].int)
    IN  [cols |-> [x \in 1..Len(keep) |-> df.cols[keep[x]]],
         rows |-> [i \in 1..Len(df.rows) |->
                     [x \in 1..Len(keep) |-> df.rows[i][keep[x]]]]]

IntCols(df) == {df.cols[j] : j \in {m \in 1..Len(df.cols) : df.cols[m].int}}

\* pages/01 61-69
Convert01(df) ==
    IF \E c \in IntCols(df) \cup {RegionCol, TotalCol} : CountCol(df, c) > 1
    THEN Raise("TypeError")
    ELSE Ok(CoerceCols(SelectRequired01(df), IntCols(df) \cup {TotalCol}))

\* pages/01 13-69
Load01(f) ==
    IF ~f.exists THEN RetNone("FileNotFoundError")
    ELSE IF ~f.decodable THEN RetNone("LoadError")
    ELSE LET df == ReadCsv(f) IN
         IF ~\E j \in 1..Len(df.cols) : Contains(df.cols[j].s, TotalMark)
         THEN RetNone("NoTotalColumn")
         ELSE LET named == RenameAges01(RenameTotal01(df)) IN
              IF ~HasCol(named, RegionCol) THEN RetNone("NoRegionColumn")
              ELSE Convert01(named)

-----------------------------------------------------------------------------
(* pages/02: load_data and process_data                                    *)

\* pages/02 9-24
LoadData02(f) ==
    IF ~f.exists THEN RetNone("FileNotFoundError")
    ELSE IF ~f.decodable THEN RetNone("LoadError")
    ELSE Ok(ReadCsv(f))

\* pages/02 33: df[df['행정구역'] != '전국']
FilterNationwide(df) ==
    [df EXCEPT !.rows =
        SelectSeq(df.rows,
                  LAMBDA r : ~(r[ColIdx(df, RegionCol)].t = "str"
                               /\ r[ColIdx(df, RegionCol)].c.s = Nationwide))]

\* pages/02 44: the columns whose dtype is object
ObjectCols(df) ==
    {j \in 1..Len(df.cols) :
        df.rows = <<>> \/ \E i \in 1..Len(df.rows) : df.rows[i][j].t = "str"}

\* pages/02 43-49: an object column becomes int when, commas removed, every
\* value is an integer literal; otherwise it is left as it is
ObjectToInt02(df) ==
    LET conv(j) == /\ j \in ObjectCols(df)
                   /\ \A i \in 1..Len(df.rows) :
                         df.rows[i][j].t = "str" /\ df.rows[i][j].c.k \in {"num", "grp"}
    IN  [df EXCEPT !.rows =
            [i \in 1..Len(df.rows) |->
                [j \in 1..Len(df.cols) |->
                    IF conv(j) THEN VInt(df.rows[i][j].c.v) ELSE df.rows[i][j]]]]

\* pages/02 26-49, on the frame load_data returned
ProcessData02(df) ==
    IF ~HasCol(df, RegionCol) THEN Raise("KeyError")
    ELSE IF ~HasCol(df, SumCol) THEN [RetNone("NoSumColumn") EXCEPT !.raw = df]
    ELSE [Ok(ObjectToInt02(FilterNationwide(df))) EXCEPT !.raw = df]

\* pages/02 84-88
Load02(f) ==
    IF LoadData02(f).st # "ok" THEN LoadData02(f) ELSE ProcessData02(LoadData02(f).df)

-----------------------------------------------------------------------------
(* Top-5 selection.                                                        *)

TopN == 5

\* x sorts no later than y in descending order; NaN goes last (na_position)
NotAfter(x, y) ==
    IF y.t = "nan" THEN TRUE ELSE IF x.t = "nan" THEN FALSE ELSE x.h >= y.h

Key(df, name, i) == df.rows[i][ColIdx(df, name)]

Take(df, order) ==
    [df EXCEPT !.rows = [x \in 1..Len(order) |-> df.rows[order[x]]]]

\* sort_values(by=name, ascending=False).head(k) with the default
\* kind='quicksort', which does not keep the order of equal keys: every
\* descending arrangement of the rows in S is a possible outcome.
RECURSIVE DescOrders(_, _, _, _)
DescOrders(df, name, S, k) ==
    IF S = {} \/ k = 0 THEN {<<>>}
    ELSE UNION {{<<m>> \o r : r \in DescOrders(df, name, S \ {m}, k - 1)} :
                   m \in {i \in S : \A j \in S : NotAfter(Key(df, name, i), Key(df, name, j))}}

\* The stable descending arrangement: equal keys in row order.
RECURSIVE StableOrder(_, _, _, _)
StableOrder(df, name, S, k) ==
    IF S = {} \/ k = 0 THEN <<>>
    ELSE LET m == CHOOSE i \in S :
                      \A j \in S : \/ ~NotAfter(Key(df, name, j), Key(df, name, i))
                                   \/ NotAfter(Key(df, name, i), Key(df, name, j)) /\ i <= j
         IN  <<m>> \o StableOrder(df, name, S \ {m}, k - 1)

\* Mutant of SortHead: head(4)
SortHeadShort(df, name) == DescOrders(df, name, 1..Len(df.rows), TopN - 1)

\* main.py 65-66 and pages/02 52
SortHead(df, name) == DescOrders(df, name, 1..Len(df.rows), TopN)

\* Mutant of NLargest: sort_values(...).head(5) in its place
NLargestBySort(df, name) == DescOrders(df, name, 1..Len(df.rows), TopN)

\* pages/01 86: DataFrame.nlargest(5, name), keep='first'.  With 5 >= len
\* pandas sorts the whole column (sort_values, default kind); otherwise it
\* selects and orders with a stable mergesort argsort.
NLargest(df, name) ==
    IF TopN >= Len(df.rows)
    THEN DescOrders(df, name, 1..Len(df.rows), TopN)
    ELSE {StableOrder(df, name, 1..Len(df.rows), TopN)}

-----------------------------------------------------------------------------
(* Reshaping for the charts.                                               *)

\* the positions of the columns whose name is in the set names, in column order
ColSeq(df, names) == SelectSeq([j \in 1..Len(df.cols) |-> j], LAMBDA j : df.cols[j] \in names)

\* main.py 78-82: top5_df.set_index('행정구역')[age_cols].T
TransposeMain(df, top) ==
    LET ages == ColSeq(df, DigitCols(df)) IN
    [index   |-> [a \in 1..Len(ages) |-> df.cols[ages[a]]],
     columns |-> [r \in 1..Len(top.rows) |-> top.rows[r][ColIdx(top, RegionCol)]],
     cells   |-> [a \in 1..Len(ages) |->
                    [r \in 1..Len(top.rows) |-> top.rows[r][ages[a]]]]]

\* Mutant of Melt01: the last age column is left out of value_vars
Melt01ShortVars(top) ==
    LET ages == ColSeq(top, IntCols(top))
        n    == Len(top.rows)
    IN  [x \in 1..((Len(ages) - 1) * n) |->
            LET a == ages[((x - 1) \div n) + 1]
                r == ((x - 1) % n) + 1
            IN  [region |-> top.rows[r][ColIdx(top, RegionCol)],
                 total  |-> top.rows[r][ColIdx(top, TotalCol)],
                 age    |-> top.cols[a].n,
                 count  |-> top.rows[r][a]]]

\* pages/01 90-96: df_top5.melt(id_vars, value_vars=age_cols): one row per
\* (age column, region), the age columns outermost
Melt01(top) ==
    LET ages == ColSeq(top, IntCols(top))
        n    == Len(top.rows)
    IN  [x \in 1..(Len(ages) * n) |->
            LET a == ages[((x - 1) \div n) + 1]
                r == ((x - 1) % n) + 1
            IN  [region |-> top.rows[r][ColIdx(top, RegionCol)],
                 total  |-> top.rows[r][ColIdx(top, TotalCol)],
                 age    |-> top.cols[a].n,
                 count  |-> top.rows[r][a]]]

\* pages/02 66: the known columns that hold no age (총인구수, 세대수, 계;
\* n, f = 남, 여; k, o = 한국인, 외국인; g S b = 구 성 비)
NonAgeCols02 ==
    {TotalMark, <<"s", "d", "u">>, <<"n">>, <<"f">>, <<"k", " ", "n">>, <<"k", " ", "f">>,
     <<"o", " ", "n">>, <<"o", " ", "f">>, <<"K">>}

\* pages/02 60-67: the age columns
AgeCols02(df) ==
    LET local  == {df.cols[j] : j \in 1..Len(df.cols)} \ {RegionCol}
        withSe == ColSeq(df, {c \in local : Contains(c.s, <<"s">>)})
        digit  == ColSeq(df, {c \in local : IsDigitStr(c.s)})
        rest   == ColSeq(df, {c \in local : c.s \notin NonAgeCols02 /\ ~Contains(c.s, <<"g", "S", "b">>)})
    IN  IF withSe # <<>> THEN withSe ELSE IF digit # <<>> THEN digit ELSE rest

\* pages/02 53-74: df_local.loc[top5_names, age_columns].transpose(); .loc by
\* label yields every row carrying the name, once per occurrence in the list
Transpose02(df, top) ==
    LET ages  == AgeCols02(df)
        rcol  == ColIdx(df, RegionCol)
        names == [r \in 1..Len(top.rows) |-> top.rows[r][rcol]]
        hits(r) == SelectSeq([i \in 1..Len(df.rows) |-> i],
                             LAMBDA i : df.rows[i][rcol] = names[r])
        RECURSIVE picked(_)
        picked(r) == IF r > Len(names) THEN <<>> ELSE hits(r) \o picked(r + 1)
        rowsOf == picked(1)
    IN  [index   |-> [a \in 1..Len(ages) |-> df.cols[ages[a]]],
         columns |-> [x \in 1..Len(rowsOf) |-> df.rows[rowsOf[x]][rcol]],
         cells   |-> [a \in 1..Len(ages) |->
                        [x \in 1..Len(rowsOf) |-> df.rows[rowsOf[x]][ages[a]]]]]

NoWide  == [index |-> <<>>, columns |-> <<>>, cells |-> <<>>]
NoChart == [melt |-> <<>>, wide |-> NoWide]

-----------------------------------------------------------------------------
(* st.cache_data around the loaders (main.py 11, pages/01 12, pages/02 8). *)
(* The entry is keyed by the function and its argument, the fixed path;    *)
(* the file's content is no part of the key.  A returned value is stored,  *)
(* None included; a raised exception stores nothing.                       *)

NoEntry == [filled |-> FALSE, val |-> Raise("")]

\* Mutant of Lookup: the loader runs on every render
LookupFresh(c, computed) == computed

Lookup(c, computed) == IF c.filled THEN c.val ELSE computed

Store(c, computed) ==
    IF c.filled \/ computed.st = "raise" THEN c
    ELSE [filled |-> TRUE, val |-> computed]

Fills(c, computed) == ~c.filled /\ computed.st # "raise"

-----------------------------------------------------------------------------
(* What one run of a page script hands to the rendering layer.             *)

View(res, top, ch) ==
    [st |-> res.st, df |-> res.df, err |-> res.err, raw |-> res.raw,
     top |-> top, chart |-> ch]

NotRendered == [st |-> "init", df |-> NoDF, err |-> "", raw |-> NoDF,
                top |-> NoDF, chart |-> NoChart]

\* main.py 59-92
ViewsMain(res) ==
    IF res.st # "ok" THEN {View(res, NoDF, NoChart)}
    ELSE {View(res, Take(res.df, o),
               [melt |-> <<>>, wide |-> TransposeMain(res.df, Take(res.df, o))]) :
             o \in SortHead(res.df, TotalCol)}

\* pages/01 82-121
Views01(res) ==
    IF res.st # "ok" THEN {View(res, NoDF, NoChart)}
    ELSE {View(res, Take(res.df, o),
               [melt |-> Melt01(Take(res.df, o)), wide |-> NoWide]) :
             o \in NLargest(res.df, TotalCol)}

\* pages/02 84-103
Views02(loaded) ==
    IF loaded.st # "ok" THEN {View(loaded, NoDF, NoChart)}
    ELSE LET res == ProcessData02(loaded.df) IN
         IF res.st # "ok" THEN {View(res, NoDF, NoChart)}
         ELSE {View(res, Take(res.df, o),
                    [melt |-> <<>>, wide |-> Transpose02(res.df, Take(res.df, o))]) :
                  o \in SortHead(res.df, SumCol)}

Failed(o) == o.st \in {"none", "raise"}

\* One run of main.py
RenderMain ==
    /\ page = "main"
    /\ \E v \in ViewsMain(Lookup(cache, LoadMain(disk))) : out' = v
    /\ cache' = Store(cache, LoadMain(disk))
    /\ filledFrom' = IF Fills(cache, LoadMain(disk)) THEN disk ELSE filledFrom
    /\ seen' = disk
    /\ prevFail' = Failed(out)
    /\ UNCHANGED <<page, disk>>

\* One run of pages/01
Render01 ==
    /\ page = "p01"
    /\ \E v \in Views01(Lookup(cache, Load01(disk))) : out' = v
    /\ cache' = Store(cache, Load01(disk))
    /\ filledFrom' = IF Fills(cache, Load01(disk)) THEN disk ELSE filledFrom
    /\ seen' = disk
    /\ prevFail' = Failed(out)
    /\ UNCHANGED <<page, disk>>

\* One run of pages/02: load_data is the cached function
Render02 ==
    /\ page = "p02"
    /\ \E v \in Views02(Lookup(cache, LoadData02(disk))) : out' = v
    /\ cache' = Store(cache, LoadData02(disk))
    /\ filledFrom' = IF Fills(cache, LoadData02(disk)) THEN disk ELSE filledFrom
    /\ seen' = disk
    /\ prevFail' = Failed(out)
    /\ UNCHANGED <<page, disk>>

\* What the page computes from file f when nothing is cached
LoadOf(pg, f) ==
    CASE pg = "main" -> LoadMain(f)
      [] pg = "p01"  -> Load01(f)
      [] OTHER       -> Load02(f)

-----------------------------------------------------------------------------
(* Input files.                                                            *)

Period == <<"2", "5", "Y", "_", "K", "_">>

HeaderOf(pg) ==
    CASE pg = "main" ->
           <<RegionCol.s, Period \o TotalMark, Period \o <<"0", "s">>,
             Period \o <<"1", "0", "0", "s", " ", "e", "a">>>>
      [] pg = "p01" ->
           <<RegionCol.s, Period \o TotalMark, Period \o <<"0", "~", "9", "s">>,
             Period \o <<"1", "0", "~", "1", "9", "s">>>>
      [] OTHER ->
           <<RegionCol.s, SumCol.s, <<"0", "s">>, <<"1", "s">>>>

\* a column that is not the total: households (세대수) or, on page 02, 남
OtherHeader(pg) == IF pg = "p02" THEN <<"n">> ELSE Period \o <<"s", "d", "u">>

\* "noTotal": the second column is not the total; "noRegion": no region column
Variants == {"full", "noTotal", "noRegion"}

MkFile(pg, variant, rows) ==
    [exists |-> TRUE, decodable |-> TRUE,
     header |-> CASE variant = "noRegion" -> Tail(HeaderOf(pg))
                  [] variant = "noTotal"  -> [HeaderOf(pg) EXCEPT ![2] = OtherHeader(pg)]
                  [] OTHER                -> HeaderOf(pg),
     rows   |-> [i \in 1..Len(rows) |->
                   IF variant = "noRegion" THEN Tail(rows[i]) ELSE rows[i]]]

Missing     == [exists |-> FALSE, decodable |-> FALSE, header |-> <<>>, rows |-> <<>>]
Undecodable == [exists |-> TRUE,  decodable |-> FALSE, header |-> <<>>, rows |-> <<>>]

SeqsUpTo(S, n) == UNION {[1..k -> S] : k \in 0..n}

MaxLoadRows == 2
MaxTopRows  == 6

RegionFields ==
    {<<"J", "G">>, <<"J", "G", " ", " ", "(", "0", ")">>,
     <<"A", "B", " ", "(", "1", ")">>, <<"C">>, <<"A", "B", "\t", "(", "1", ")">>}

Cells == {CNum(3), CNum(-2), CGrp(1234), CDec(2), CEmpty, CText(<<"x">>)}

\* Rows that vary one field at a time
LoadRows(pg) ==
    {<<CText(r), CNum(3), CNum(1), CNum(2)>> : r \in RegionFields}
    \cup {<<CText(<<"A", "B", " ", "(", "1", ")">>), c, CNum(1), CNum(2)>> :
             c \in IF pg = "p02" THEN Cells \ {CText(<<"x">>)} ELSE Cells}
    \cup {<<CText(<<"C">>), CNum(3), c, CNum(2)>> : c \in Cells}

LoadFiles(pg) ==
    {MkFile(pg, v, rows) : v \in Variants, rows \in SeqsUpTo(LoadRows(pg), MaxLoadRows)}

RegionNo == <<"1", "2", "3", "4", "5", "6", "7", "8", "9">>

TopKinds == {<<CNum(1), CNum(0), CNum(1)>>, <<CNum(2), CNum(1), CNum(2)>>}

TopFiles(pg) ==
    {MkFile(pg, "full",
            [i \in 1..Len(ks) |->
                <<CText(<<"R", RegionNo[i], " ", "(", "7", ")">>)>> \o ks[i]]) :
        ks \in SeqsUpTo(TopKinds, MaxTopRows)}

CacheFiles(pg) ==
    {Missing, Undecodable,
     MkFile(pg, "full", <<>>),
     MkFile(pg, "noTotal", <<<<CText(<<"C">>), CNum(3), CNum(1), CNum(2)>>>>),
     MkFile(pg, "full", <<<<CText(<<"C">>), CNum(3), CNum(1), CNum(2)>>>>),
     MkFile(pg, "full", <<<<CText(<<"J", "G">>), CNum(9), CNum(4), CNum(5)>>,
                          <<CText(<<"A", "B", " ", "(", "1", ")">>), CGrp(1234), CEmpty, CNum(2)>>>>)}

\* The file at the path is replaced
ChangeFile ==
    /\ \E f \in CacheFiles(page) : f # disk /\ disk' = f
    /\ UNCHANGED <<page, cache, filledFrom, seen, prevFail, out>>

-----------------------------------------------------------------------------
(* Specifications.                                                         *)

InitRest ==
    /\ page \in Pages
    /\ cache = NoEntry
    /\ filledFrom = Missing
    /\ seen = Missing
    /\ prevFail = FALSE
    /\ out = NotRendered

InitLoad  == InitRest /\ disk \in LoadFiles(page)
InitTop   == InitRest /\ disk \in TopFiles(page)
InitCache == InitRest /\ disk \in CacheFiles(page)

\* The first run of each page script after the server starts
FirstMain == out.st = "init" /\ RenderMain
First01   == out.st = "init" /\ Render01
First02   == out.st = "init" /\ Render02

NextOnce == FirstMain \/ First01 \/ First02
Next     == RenderMain \/ Render01 \/ Render02 \/ ChangeFile

\* every page once over files that vary the header, the regions and the fields
SpecLoad == InitLoad /\ [][NextOnce]_vars
\* every page once over well-formed files of up to MaxTopRows regions
SpecTop  == InitTop /\ [][NextOnce]_vars
\* renders interleaved with replacements of the file
Spec     == InitCache /\ [][Next]_vars

-----------------------------------------------------------------------------
(* Properties.                                                             *)

Rendered == out.st # "init"

Min(a, b) == IF a <= b THEN a ELSE b

\* the column the page ranks by
RankCol == IF page = "p02" THEN SumCol ELSE TotalCol

\* the columns the loader converts to int (main.py 46, pages/01 66)
NumericIdx(df) ==
    {j \in 1..Len(df.cols) :
        \/ df.cols[j] = TotalCol
        \/ page = "main" /\ IsDigitStr(df.cols[j].s)
        \/ page = "p01" /\ df.cols[j].int}

NegativeInFile(f, h) ==
    \E i \in 1..Len(f.rows) : \E j \in 1..Len(f.rows[i]) :
        f.rows[i][j].k = "num" /\ 2 * f.rows[i][j].v = h

\* C1 as claimed: on the pages that coerce (main, 01), every numeric field of
\* every loaded row is an integer and is greater than or equal to 0.
C1_NumericNonNegative ==
    (page \in {"main", "p01"} /\ out.st = "ok") =>
        \A i \in 1..Len(out.df.rows) : \A j \in NumericIdx(out.df) :
            out.df.rows[i][j].t = "int" /\ out.df.rows[i][j].h >= 0

\* C1 amended: every numeric field of every loaded row is an integer, never
\* null; it is negative only when the file holds that negative number.
C1_NumericInteger ==
    (page \in {"main", "p01"} /\ out.st = "ok") =>
        \A i \in 1..Len(out.df.rows) : \A j \in NumericIdx(out.df) :
            /\ out.df.rows[i][j].t = "int"
            /\ out.df.rows[i][j].h < 0 => NegativeInFile(seen, out.df.rows[i][j].h)

C1_Witness ==
    /\ page = "main" /\ out.st = "ok" /\ Len(out.df.rows) = 2
    /\ \E j \in 1..4 : seen.rows[1][j] = CNum(-2) /\ out.df.rows[1][j] = VInt(-2)
    /\ \E j \in 1..4 : seen.rows[2][j] = CText(<<"x">>) /\ out.df.rows[2][j] = VInt(0)

\* the rows of file f that page main keeps, in file order
KeptRows(f) ==
    IF f.rows # <<>> /\ Contains(f.rows[1][1].s, Nationwide) THEN Tail(f.rows) ELSE f.rows

\* r is the part of raw before its first character in seps
IsPartBefore(r, raw, seps) ==
    /\ Len(r) <= Len(raw)
    /\ r = SubSeq(raw, 1, Len(r))
    /\ \A x \in 1..Len(r) : r[x] \notin seps
    /\ Len(r) < Len(raw) => raw[Len(r) + 1] \in seps

RegionOf(df, i) == df.rows[i][ColIdx(df, RegionCol)].c.s

\* C9 as claimed: every loaded row's region is the part of the raw region
\* field before its first whitespace character.
C9_RegionBeforeWhitespace ==
    (page \in {"main", "p01"} /\ out.st = "ok") =>
        LET raw == IF page = "main" THEN KeptRows(seen) ELSE seen.rows IN
        \A i \in 1..Len(out.df.rows) :
            IsPartBefore(RegionOf(out.df, i), raw[i][1].s, {" ", "\t"})

\* C9 amended: on the main page the region is the part of the raw field
\* before its first space character (U+0020); page 01 keeps the raw field.
C9_RegionBeforeSpace ==
    (page \in {"main", "p01"} /\ out.st = "ok") =>
        LET raw == IF page = "main" THEN KeptRows(seen) ELSE seen.rows IN
        /\ Len(out.df.rows) = Len(raw)
        /\ \A i \in 1..Len(out.df.rows) :
              IF page = "main"
              THEN IsPartBefore(RegionOf(out.df, i), raw[i][1].s, {" "})
              ELSE RegionOf(out.df, i) = raw[i][1].s

C9_Witness ==
    /\ page = "main" /\ out.st = "ok"
    /\ \E i \in 1..Len(out.df.rows) :
          /\ KeptRows(seen)[i][1].s = <<"A", "B", " ", "(", "1", ")">>
          /\ RegionOf(out.df, i) = <<"A", "B">>

HasMarker(f, mark) == \E j \in 1..Len(f.header) : Contains(f.header[j], mark)

\* C5: when no header of the file holds the marker of the page's total
\* column, the render reports a failure and receives no table, selection or chart.
C5_MissingTotalFails ==
    (Rendered /\ ~HasMarker(seen, RankCol.s)) =>
        /\ Failed(out)
        /\ out.df = NoDF /\ out.top = NoDF /\ out.chart = NoChart

C5_Witness ==
    /\ page = "main" /\ seen.exists /\ seen.decodable /\ Len(seen.rows) = 2
    /\ ~HasMarker(seen, TotalMark)
    /\ out.st = "raise" /\ out.err = "KeyError"

\* C6 as claimed: on the main page a readable file with all its columns and
\* no data row beside the nationwide row loads as an empty table.
C6_EmptyFileLoadsEmpty ==
    (/\ page = "main" /\ Rendered
     /\ seen.exists /\ seen.decodable /\ seen.header = HeaderOf("main")
     /\ KeptRows(seen) = <<>>)
        => out.st = "ok" /\ out.df.rows = <<>>

\* the file with its nationwide row already removed, as the page removes it
StripFile(pg, f) ==
    CASE pg = "main" -> [f EXCEPT !.rows = KeptRows(f)]
      [] pg = "p02"  -> [f EXCEPT !.rows = SelectSeq(f.rows, LAMBDA r : r[1].s # Nationwide)]
      [] OTHER       -> f

\* C4 as claimed: loading the file whose nationwide row was already removed
\* yields as many rows as loading the original file.
C4_DropIdempotent ==
    (page \in {"main", "p02"} /\ out.st = "ok" /\ seen.header = HeaderOf(page)) =>
        /\ LoadOf(page, StripFile(page, seen)).st = "ok"
        /\ Len(LoadOf(page, StripFile(page, seen)).df.rows) = Len(out.df.rows)

PosIn(df, row) == CHOOSE i \in 1..Len(df.rows) : df.rows[i] = row

LeftOut(df, top) ==
    {i \in 1..Len(df.rows) : \A x \in 1..Len(top.rows) : top.rows[x] # df.rows[i]}

\* C2: the selection holds min(5, n) rows of the table, in descending order
\* of total, and no row left out has a greater total than a row kept.
C2_TopFiveDescending ==
    out.st = "ok" =>
        /\ Len(out.top.rows) = Min(TopN, Len(out.df.rows))
        /\ \A x \in 1..Len(out.top.rows) :
              \E i \in 1..Len(out.df.rows) : out.df.rows[i] = out.top.rows[x]
        /\ \A x, y \in 1..Len(out.top.rows) :
              x < y => /\ out.top.rows[x] # out.top.rows[y]
                       /\ Key(out.top, RankCol, x).h >= Key(out.top, RankCol, y).h
        /\ \A i \in LeftOut(out.df, out.top) : \A x \in 1..Len(out.top.rows) :
              Key(out.df, RankCol, i).h <= Key(out.top, RankCol, x).h

C2_Witness ==
    /\ out.st = "ok" /\ Len(out.df.rows) = 6 /\ Len(out.top.rows) = 5
    /\ Key(out.df, RankCol, 1).h < Key(out.df, RankCol, 6).h
    /\ Key(out.top, RankCol, 1).h > Key(out.top, RankCol, 5).h
    /\ 1 \in LeftOut(out.df, out.top)

\* rows with equal totals appear, and are chosen at the cut-off, in table order
TiesInTableOrder ==
    /\ \A x, y \in 1..Len(out.top.rows) :
          (x < y /\ Key(out.top, RankCol, x) = Key(out.top, RankCol, y))
              => PosIn(out.df, out.top.rows[x]) < PosIn(out.df, out.top.rows[y])
    /\ \A i \in LeftOut(out.df, out.top) : \A x \in 1..Len(out.top.rows) :
          Key(out.df, RankCol, i) = Key(out.top, RankCol, x)
              => PosIn(out.df, out.top.rows[x]) < i

\* C3 as claimed: on every page, rows with equal totals are ordered, and
\* chosen at the cut-off, by their order in the table.
C3_StableEverywhere == out.st = "ok" => TiesInTableOrder

\* C3 amended: on page 01 (nlargest), for a table of more than 5 rows, rows
\* with equal totals are ordered, and chosen at the cut-off, by table order.
C3_StableNLargest ==
    (out.st = "ok" /\ page = "p01" /\ Len(out.df.rows) > TopN) => TiesInTableOrder

C3_Witness ==
    /\ out.st = "ok" /\ page = "p01" /\ Len(out.df.rows) = 6
    /\ \A i \in 2..6 : Key(out.df, RankCol, i) = Key(out.df, RankCol, 1)
    /\ LeftOut(out.df, out.top) = {6}

RECURSIVE SumSeq(_)
SumSeq(q) == IF q = <<>> THEN 0 ELSE Head(q) + SumSeq(Tail(q))

MeltCounts(m, region) ==
    [x \in 1..Len(m) |-> IF m[x].region = region THEN m[x].count.h \div 2 ELSE 0]

AgeSums(top, region) ==
    [r \in 1..Len(top.rows) |->
        IF top.rows[r][ColIdx(top, RegionCol)] = region
        THEN SumSeq([j \in 1..Len(top.cols) |->
                        IF top.cols[j].int THEN top.rows[r][j].h \div 2 ELSE 0])
        ELSE 0]

\* C8: the melted table of page 01 has (selected rows) x (age columns) rows,
\* and per region its counts sum to the region's age fields in the selection.
C8_MeltKeepsMass ==
    (page = "p01" /\ out.st = "ok") =>
        /\ Len(out.chart.melt) = Len(out.top.rows) * Cardinality(IntCols(out.top))
        /\ \A r \in 1..Len(out.top.rows) :
              LET region == out.top.rows[r][ColIdx(out.top, RegionCol)] IN
              SumSeq(MeltCounts(out.chart.melt, region)) = SumSeq(AgeSums(out.top, region))

C8_Witness ==
    /\ page = "p01" /\ out.st = "ok" /\ Len(out.top.rows) = 5
    /\ Len(out.chart.melt) = 10
    /\ SumSeq(MeltCounts(out.chart.melt, out.top.rows[1][1])) = 3
    /\ SumSeq(MeltCounts(out.chart.melt, out.top.rows[5][1])) = 1

ResultOf(o) == [st |-> o.st, df |-> o.df, err |-> o.err, raw |-> o.raw]

\* C7 as claimed: the table a render uses is the normalization of the file
\* as it is on disk when the render runs.
C7_RenderUsesCurrentFile == Rendered => ResultOf(out) = LoadOf(page, seen)

\* C7 amended: the table a render uses is the normalization of the file as it
\* was when the cache entry of the path was filled; only while no entry
\* exists is it the normalization of the file on disk at the render.
C7_RenderUsesCachedFile ==
    Rendered => ResultOf(out) = IF cache.filled THEN LoadOf(page, filledFrom)
                                ELSE LoadOf(page, seen)

C7_Witness ==
    /\ Rendered /\ cache.filled /\ out.st = "ok"
    /\ LoadOf(page, seen).st = "ok"
    /\ LoadOf(page, seen).df # out.df

\* C10 as claimed: when the previous render reported a load failure and a
\* loadable file is in place, the render loads that file and uses its table.
C10_RetryLoadsCorrectedFile ==
    (Rendered /\ prevFail /\ LoadOf(page, seen).st = "ok") =>
        out.st = "ok" /\ out.df = LoadOf(page, seen).df

====
